---- MODULE Spec2Model ----
(***************************************************************************)
(* The info-section navigation controller of                               *)
(* Telegram/SourceFiles/info/info_controller.cpp: the identity Key, the    *)
(* Controller with its two search delegates and its migration watcher,     *)
(* and AbstractController::downloadsSource.                                *)
(***************************************************************************)
EXTENDS Integers, Sequences, FiniteSets

(* ------------------------------ bounds -------------------------------- *)

\* Query-text changes a single query-field delegate goes through.
MaxQueryChanges == 2
\* Migration-flag notifications delivered to one controller.
MaxNotifications == 2
\* Length of the download manager's loading list.
MaxLoading == 3
\* Start timestamps are 0..MaxStarted.
MaxStarted == 1
\* Loading-list changes of the download manager.
MaxListChanges == 3
\* Transitions a controller is asked to show.
MaxShows == 2

(* --------------------------- session data ----------------------------- *)

\* A null pointer (PeerData*, UserData*, PollData*).
Null == "nullptr"

\* An empty std::unique_ptr.
NoDelegate == [null |-> TRUE]

\* The peers of the session: a basic chat, a channel and a user.
Peers == {"chat", "channel", "user"}

\* PeerData::id; PeerId(0) is the id of no peer.
PeerIdOf(p) == CASE p = "chat" -> 1 [] p = "channel" -> 2 [] p = "user" -> 3

\* session().data().peer(id): the peer of an id.
PeerById(id) == CHOOSE p \in Peers : PeerIdOf(p) = id

isChat(p) == p = "chat"

isChannel(p) == p = "channel"

\* The users a Settings::Tag can name.
Users == {"self"}

Polls == {"poll"}

\* FullMsgId values; 0 is the default-constructed FullMsgId().
DefaultFullMsgId == 0

FullMsgIds == {DefaultFullMsgId, 7}

\* The search texts typed or saved.
Texts == {"", "cats"}

(* -------------------------------- Key --------------------------------- *)

\* Key::Key(not_null<PeerData*> peer)
Key_Peer(p) == [tag |-> "Peer", value |-> [peer |-> p]]

\* Key::Key(Settings::Tag settings)
Key_Settings(self) == [tag |-> "Settings", value |-> [self |-> self]]

\* Key::Key(Downloads::Tag downloads)
Key_Downloads == [tag |-> "Downloads", value |-> [downloads |-> TRUE]]

\* Key::Key(not_null<PollData*> poll, FullMsgId contextId)
Key_Poll(poll, contextId) ==
    [tag |-> "Poll", value |-> [poll |-> poll, contextId |-> contextId]]

Keys ==
    {Key_Peer(p) : p \in Peers}
    \cup {Key_Settings(u) : u \in Users}
    \cup {Key_Downloads}
    \cup {Key_Poll(q, c) : q \in Polls, c \in FullMsgIds}

Key_peer(k) == IF k.tag = "Peer" THEN k.value.peer ELSE Null

Key_settingsSelf(k) == IF k.tag = "Settings" THEN k.value.self ELSE Null

Key_isDownloadsAnyTag(k) == k.tag \in {"Downloads", "Settings"}

Key_isDownloads(k) == k.tag = "Downloads"

Key_poll(k) == IF k.tag = "Poll" THEN k.value.poll ELSE Null

Key_pollContextId(k) ==
    IF k.tag = "Poll" THEN k.value.contextId ELSE DefaultFullMsgId

(* ------------------------- Section and Memento ------------------------ *)

MediaTypes == {"Photo", "File"}

\* Section::MediaType::kCount, the placeholder of a non-media section.
kCount == "kCount"

\* SharedMediaAllowSearch(type)
SharedMediaAllowSearch(mediaType) == mediaType \in {"File"}

SectionTypes == {"Profile", "Media", "CommonGroups", "Members", "Downloads"}

\* A Section: its type and, for Media, the media type (the first media type
\* for the other sections, whose mediaType() is not meaningful).
Sections ==
    {[type |-> "Media", mediaType |-> t] : t \in MediaTypes}
    \cup {[type |-> t, mediaType |-> "Photo"] : t \in SectionTypes \ {"Media"}}

\* A default-constructed SavedState: a default
\* Api::DelayedSearchController::Query.
DefaultSearchState ==
    [query |-> [type |-> "Photo", peerId |-> 0, migratedPeerId |-> 0,
                query |-> ""]]

\* A SavedState left by an earlier search of the chat's files.
EarlierSearchState ==
    [query |-> [type |-> "File", peerId |-> 1, migratedPeerId |-> 0,
                query |-> "cats"]]

\* The dynamic type of a ContentMemento (Media::Memento or another
\* subclass) with its searchState; only a Media::Memento carries one, and
\* only a Media section reads either.
MementoKinds(section) ==
    IF section.type = "Media"
    THEN {<<"Media", DefaultSearchState>>, <<"Media", EarlierSearchState>>,
          <<"Other", DefaultSearchState>>}
    ELSE {<<"Other", DefaultSearchState>>}

\* The ContentMementos of the given keys, migrated peer ids and sections.
MementosOf(keys, ids, sections) ==
    UNION {
        {[key |-> k, section |-> s, migratedPeerId |-> i,
          searchFieldQuery |-> t, searchEnabledByContent |-> e,
          searchStartsFocused |-> f, kind |-> ks[1], searchState |-> ks[2]] :
            k \in keys, i \in ids, t \in Texts, e \in BOOLEAN,
            f \in BOOLEAN, ks \in MementoKinds(s)} :
        s \in sections}

\* The ids a memento records as its migrated peer: none, or the chat.
MigratedPeerIds == {0, 1}

\* ContentMemento::peer()
Memento_peer(m) == Key_peer(m.key)

\* ContentMemento::settingsSelf()
Memento_settingsSelf(m) == Key_settingsSelf(m.key)

(* ------------------------------- state -------------------------------- *)

VARIABLES
    alive,                   \* "unborn", "alive" or "destroyed" Controller
    failure,                 \* "none", or the fatal failure that ended the run
    _key,                    \* Controller::_key
    _migrated,               \* Controller::_migrated
    _section,                \* Controller::_section
    _searchController,       \* Null or the content-search delegate
    _searchFieldController,  \* Null or the query-field delegate
    _seachEnabledByContent,  \* rpl::variable<bool>
    _searchStartsFocused,
    ret,                     \* the last operation: [op, arg, val]
    migrateTo,               \* PeerData::migrateTo() of each peer
    migrateFrom,             \* PeerData::migrateFrom() of each peer
    watching,                \* the migration subscription is alive
    notifications,           \* the notifications the watcher was handed
    queue,                   \* tasks InvokeQueued posted to _widget
    widgetAlive,             \* the WrapWidget exists
    navigator,               \* calls the window-level navigator received
    loadingList,             \* DownloadManager::loadingList()
    subscribed,              \* downloadsSource() has a subscriber
    changes,                 \* loadingListChanges() fired since subscription
    emitted,                 \* slices the subscriber received (count)
    slice,                   \* the last slice the subscriber received
    queryViewer,             \* the subscriber of mediaSourceQueryValue()
    widgetCalls              \* calls the WrapWidget received

controllerVars ==
    <<alive, failure, _key, _migrated, _section, _searchController,
      _searchFieldController, _seachEnabledByContent, _searchStartsFocused>>

searchVars ==
    <<_searchController, _searchFieldController, _seachEnabledByContent,
      _searchStartsFocused>>

sessionVars == <<migrateTo, migrateFrom>>

migrationVars == <<watching, notifications, queue, navigator>>

downloadVars == <<loadingList, subscribed, changes, emitted, slice>>

viewerVars == <<queryViewer, widgetCalls>>

vars ==
    <<alive, failure, _key, _migrated, _section, _searchController,
      _searchFieldController, _seachEnabledByContent, _searchStartsFocused,
      ret, migrateTo, migrateFrom, watching, notifications, queue,
      widgetAlive, navigator, loadingList, subscribed, changes, emitted,
      slice, queryViewer, widgetCalls>>

Void == "void"

Result(op, arg, val) == [op |-> op, arg |-> arg, val |-> val]

(* --------------------------- search delegates ------------------------- *)

\* std::make_unique<Api::DelayedSearchController>(&session()): a default
\* current query; received is the log of the queries setQuery was handed.
NewSearchController ==
    [query |-> DefaultSearchState.query, received |-> <<>>]

\* DelayedSearchController::restoreState(SavedState)
SearchController_restoreState(sc, state) == [sc EXCEPT !.query = state.query]

\* DelayedSearchController::setQuery(Query)
SearchController_setQuery(sc, q) ==
    [sc EXCEPT !.query = q, !.received = Append(@, q)]

\* DelayedSearchController::saveState()
SearchController_saveState(sc) == [query |-> sc.query]

\* std::make_unique<Ui::SearchFieldController>(query): the field's text, the
\* texts it changed to since, and whether queryValue() has the subscriber
\* that forwards to the content-search delegate.
NewSearchFieldController(text, wired) ==
    [query |-> text, changed |-> <<>>, wired |-> wired]

\* No subscriber of mediaSourceQueryValue() yet.
NoViewer == [source |-> "none", log |-> <<>>]

\* DelayedSearchController::currentQueryValue() after setQuery changed the
\* current query's text: a subscriber of the live producer gets the text.
ViewerAfterSetQuery(viewer, text) ==
    IF viewer.source = "currentQueryValue"
    THEN [viewer EXCEPT !.log = Append(@, text)]
    ELSE viewer

\* The content-search delegate is destroyed: its producer ends with it.
ViewerAfterRelease(viewer) ==
    IF viewer.source = "currentQueryValue"
    THEN [viewer EXCEPT !.source = "ended"]
    ELSE viewer

(* ----------------------------- Controller ----------------------------- *)

\* The Controller object: its members.
This ==
    [key |-> _key, migrated |-> _migrated, section |-> _section,
     searchController |-> _searchController,
     searchFieldController |-> _searchFieldController,
     seachEnabledByContent |-> _seachEnabledByContent,
     searchStartsFocused |-> _searchStartsFocused,
     failure |-> failure]

\* AbstractController::peer() through Controller::key()
peer == Key_peer(_key)

\* AbstractController::settingsSelf() through Controller::key()
settingsSelf == Key_settingsSelf(_key)

\* AbstractController::migratedPeerId()
migratedPeerId == IF _migrated # Null THEN PeerIdOf(_migrated) ELSE 0

\* A produceSearchQuery that forgets the migrated peer.
produceSearchQueryNoMigrated(this, query) ==
    [type |-> this.section.mediaType,
     peerId |-> PeerIdOf(Key_peer(this.key)),
     query |-> query,
     migratedPeerId |-> 0]

\* Controller::produceSearchQuery, past its Expects(_key.peer() != nullptr)
produceSearchQuery(this, query) ==
    [type |-> this.section.mediaType,
     peerId |-> PeerIdOf(Key_peer(this.key)),
     query |-> query,
     migratedPeerId |->
         IF this.migrated # Null THEN PeerIdOf(this.migrated) ELSE 0]

\* The test of updateSearchControllers for a query-field delegate, made
\* for every media section.
hasSearchFieldAnyMedia(section) ==
    section.type \in {"Media", "CommonGroups", "Members", "Profile"}

\* hasMediaSearch || hasCommonGroupsSearch || hasMembersSearch of
\* updateSearchControllers
hasSearchField(section) ==
    LET type == section.type
        isMedia == (type = "Media")
        mediaType == IF isMedia THEN section.mediaType ELSE kCount
        hasMediaSearch == isMedia /\ SharedMediaAllowSearch(mediaType)
        hasCommonGroupsSearch == (type = "CommonGroups")
        hasMembersSearch == (type = "Members") \/ (type = "Profile")
    IN  hasMediaSearch \/ hasCommonGroupsSearch \/ hasMembersSearch

\* A content-search setup that keeps the delegate it finds.
restoreSearchControllerKeep(this, memento) ==
    IF this.section.type # "Media"
    THEN NoDelegate
    ELSE IF this.searchController # NoDelegate
    THEN this.searchController
    ELSE SearchController_restoreState(NewSearchController,
                                       memento.searchState)

\* The if (isMedia) of updateSearchControllers, past its Assert: the new
\* content-search delegate, restored, or none.
restoreSearchController(this, memento) ==
    IF this.section.type = "Media"
    THEN SearchController_restoreState(NewSearchController,
                                       memento.searchState)
    ELSE NoDelegate

\* A wiring whose subscriber is not handed the field's initial text.
wireSearchFieldNoInitial(this, restored, searchQuery) ==
    restored

\* _searchFieldController->queryValue() | rpl::start_with_next(...): the
\* content-search delegate after the field's initial text was forwarded.
wireSearchField(this, restored, searchQuery) ==
    IF restored # NoDelegate
    THEN SearchController_setQuery(restored,
                                   produceSearchQuery(this, searchQuery))
    ELSE NoDelegate

\* A flag copy made whether or not a query-field delegate was created.
copySearchFlagsAlways(this, memento, hasField) ==
    [this EXCEPT !.seachEnabledByContent = memento.searchEnabledByContent,
                 !.searchStartsFocused = memento.searchStartsFocused]

\* The two flag assignments of updateSearchControllers, inside the branch
\* that creates the query-field delegate.
copySearchFlags(this, memento, hasField) ==
    IF hasField
    THEN [this EXCEPT
             !.seachEnabledByContent = memento.searchEnabledByContent,
             !.searchStartsFocused = memento.searchStartsFocused]
    ELSE this

\* Controller::updateSearchControllers(memento): the object it leaves
\* behind, with the fatal failure that cut it short, if any.
updateSearchControllers(this, memento) ==
    LET isMedia == (this.section.type = "Media")
        searchQuery == memento.searchFieldQuery
        hasField == hasSearchField(this.section)
        restored == restoreSearchController(this, memento)
        field == NewSearchFieldController(searchQuery, restored # NoDelegate)
    IN  IF isMedia /\ memento.kind # "Media"
        THEN \* Assert(mediaMemento != nullptr)
             [this EXCEPT !.searchController = NewSearchController,
                          !.failure = "Assert"]
        ELSE IF ~hasField
        THEN [copySearchFlags(this, memento, hasField) EXCEPT
                 !.searchController = restored,
                 !.searchFieldController = NoDelegate]
        ELSE IF restored # NoDelegate /\ Key_peer(this.key) = Null
        THEN \* queryValue() emits the initial text into produceSearchQuery,
             \* whose Expects(_key.peer() != nullptr) fails
             [this EXCEPT !.searchController = restored,
                          !.searchFieldController = field,
                          !.failure = "Expects"]
        ELSE [copySearchFlags(this, memento, hasField) EXCEPT
                 !.searchController =
                     wireSearchField(this, restored, searchQuery),
                 !.searchFieldController = field]

\* The object's members written back.
Assign(this) ==
    /\ _key' = this.key
    /\ _migrated' = this.migrated
    /\ _section' = this.section
    /\ _searchController' = this.searchController
    /\ _searchFieldController' = this.searchFieldController
    /\ _seachEnabledByContent' = this.seachEnabledByContent
    /\ _searchStartsFocused' = this.searchStartsFocused
    /\ failure' = this.failure

Running == alive = "alive" /\ failure = "none"

(* -------------------------- migration watcher ------------------------- *)

\* The closure InvokeQueued(_widget, ...) posts: the captured peer and
\* section, tagged with the notification it answers.
MigrationTask(p, section) ==
    [peer |-> p, section |-> section,
     notification |-> Len(notifications) + 1]

\* window->showSection(std::make_shared<Memento>(peer, section),
\*     SectionShow(Way::Backward, anim::type::instant,
\*                 anim::activation::background)), as the navigator sees it.
ShowSectionCallForward(task) ==
    [method |-> "showSection",
     memento |-> [peer |-> task.peer, section |-> task.section],
     way |-> "Forward",
     animation |-> "instant",
     activation |-> "background",
     notification |-> task.notification]

\* A request that reads the controller's section when it is delivered.
ShowSectionCallCurrent(task) ==
    [method |-> "showSection",
     memento |-> [peer |-> task.peer, section |-> _section],
     way |-> "Backward",
     animation |-> "instant",
     activation |-> "background",
     notification |-> task.notification]

ShowSectionCall(task) ==
    [method |-> "showSection",
     memento |-> [peer |-> task.peer, section |-> task.section],
     way |-> "Backward",
     animation |-> "instant",
     activation |-> "background",
     notification |-> task.notification]

\* The rpl::filter of setupMigrationViewer; migrated is _migrated.
MigrationFilter(p, migrated) ==
    migrateTo[p] # Null \/ migrateFrom[p] # migrated

\* The handler calling the navigator itself, inside the notification.
MigrationHandlerDirect(p, section) ==
    /\ navigator' = Append(navigator, ShowSectionCall(MigrationTask(p, section)))
    /\ queue' = queue

\* The rpl::start_with_next body of setupMigrationViewer: it posts the task.
MigrationHandler(p, section) ==
    /\ queue' = Append(queue, MigrationTask(p, section))
    /\ navigator' = navigator

\* One value of peerFlagsValue(peer, Flag::Migration) through the filter
\* and the handler.
MigrationValue(p, section, migrated) ==
    /\ notifications' =
           Append(notifications,
                  [peer |-> p, section |-> section,
                   to |-> migrateTo[p], from |-> migrateFrom[p]])
    /\ IF MigrationFilter(p, migrated)
       THEN MigrationHandler(p, section)
       ELSE UNCHANGED <<queue, navigator>>

\* A guard that installs the watcher over a recorded migrated peer too.
MigrationWatchedWithMigrated(key, migrated) ==
    LET p == Key_peer(key)
    IN  ~(p = Null \/ (~isChat(p) /\ ~isChannel(p)))

\* The guard of setupMigrationViewer: whether the watcher is installed.
MigrationWatched(key, migrated) ==
    LET p == Key_peer(key)
    IN  ~(p = Null \/ (~isChat(p) /\ ~isChannel(p)) \/ migrated # Null)

\* Controller::setupMigrationViewer; peerFlagsValue emits its first value
\* on subscription.
setupMigrationViewer(this) ==
    IF MigrationWatched(this.key, this.migrated)
    THEN /\ watching' = TRUE
         /\ MigrationValue(Key_peer(this.key), this.section, this.migrated)
    ELSE UNCHANGED <<watching, notifications, queue, navigator>>

(* ------------------------------ operations ---------------------------- *)

\* Controller::Controller(widget, window, memento)
Construct(memento) ==
    LET members ==
            [key |-> memento.key,
             migrated |-> IF memento.migratedPeerId # 0
                          THEN PeerById(memento.migratedPeerId)
                          ELSE Null,
             section |-> memento.section,
             searchController |-> NoDelegate,
             searchFieldController |-> NoDelegate,
             seachEnabledByContent |-> FALSE,
             searchStartsFocused |-> FALSE,
             failure |-> "none"]
        this == updateSearchControllers(members, memento)
    IN  /\ alive = "unborn"
        /\ failure = "none"
        /\ widgetAlive
        /\ alive' = "alive"
        /\ Assign(this)
        /\ IF this.failure = "none"
           THEN setupMigrationViewer(this)
           ELSE UNCHANGED <<watching, notifications, queue, navigator>>
        /\ ret' = Result("Controller", memento, Void)
        /\ UNCHANGED <<sessionVars, widgetAlive, downloadVars, viewerVars>>

\* A setSection that sets up the delegates before it stores the section.
SetSectionLate(memento) ==
    /\ Running
    /\ Assign([updateSearchControllers(This, memento)
                  EXCEPT !.section = memento.section])
    /\ ret' = Result("setSection", memento, Void)
    /\ queryViewer' = ViewerAfterRelease(queryViewer)
    /\ UNCHANGED <<alive, sessionVars, migrationVars, widgetAlive,
                   downloadVars, widgetCalls>>

\* Controller::setSection(memento)
SetSection(memento) ==
    /\ Running
    /\ Assign(updateSearchControllers(
                  [This EXCEPT !.section = memento.section], memento))
    /\ ret' = Result("setSection", memento, Void)
    /\ queryViewer' = ViewerAfterRelease(queryViewer)
    /\ UNCHANGED <<alive, sessionVars, migrationVars, widgetAlive,
                   downloadVars, widgetCalls>>

\* The user edits the query field: SearchFieldController's queryValue()
\* fires, and the subscriber installed by updateSearchControllers forwards
\* the text to _searchController.
QueryChanged(text) ==
    /\ failure = "none"
    /\ _searchFieldController # NoDelegate
    /\ text # _searchFieldController.query
    /\ Len(_searchFieldController.changed) < MaxQueryChanges
    /\ _searchFieldController' =
           [_searchFieldController EXCEPT !.query = text,
                                          !.changed = Append(@, text)]
    /\ IF ~_searchFieldController.wired
       THEN UNCHANGED <<_searchController, failure, queryViewer>>
       ELSE IF _searchController = NoDelegate
       THEN /\ failure' = "UB"
            /\ UNCHANGED <<_searchController, queryViewer>>
       ELSE IF Key_peer(_key) = Null
       THEN /\ failure' = "Expects"
            /\ UNCHANGED <<_searchController, queryViewer>>
       ELSE /\ _searchController' =
                   SearchController_setQuery(
                       _searchController, produceSearchQuery(This, text))
            /\ queryViewer' = ViewerAfterSetQuery(queryViewer, text)
            /\ UNCHANGED failure
    /\ ret' = Result("queryChanged", text, Void)
    /\ UNCHANGED <<alive, _key, _migrated, _section, _seachEnabledByContent,
                   _searchStartsFocused, sessionVars, migrationVars,
                   widgetAlive, downloadVars, widgetCalls>>

\* A saveSearchState that takes any memento for a Media::Memento.
saveSearchStateUnchecked(memento) ==
    LET saved ==
            IF _searchFieldController # NoDelegate
            THEN [memento EXCEPT
                     !.searchFieldQuery = _searchFieldController.query,
                     !.searchEnabledByContent = _seachEnabledByContent]
            ELSE memento
    IN  IF _searchController = NoDelegate
        THEN [memento |-> saved, failure |-> "none"]
        ELSE [memento |->
                  [saved EXCEPT !.searchState =
                       SearchController_saveState(_searchController)],
              failure |-> "none"]

\* A saveSearchState that writes the wrong flag.
saveSearchStateFocused(memento) ==
    LET saved ==
            IF _searchFieldController # NoDelegate
            THEN [memento EXCEPT
                     !.searchFieldQuery = _searchFieldController.query,
                     !.searchEnabledByContent = _searchStartsFocused]
            ELSE memento
    IN  IF _searchController = NoDelegate
        THEN [memento |-> saved, failure |-> "none"]
        ELSE IF memento.kind # "Media"
        THEN [memento |-> saved, failure |-> "Assert"]
        ELSE [memento |->
                  [saved EXCEPT !.searchState =
                       SearchController_saveState(_searchController)],
              failure |-> "none"]

\* Controller::saveSearchState(memento): the memento as it leaves it, and
\* the fatal failure that cut it short, if any.
saveSearchState(memento) ==
    LET saved ==
            IF _searchFieldController # NoDelegate
            THEN [memento EXCEPT
                     !.searchFieldQuery = _searchFieldController.query,
                     !.searchEnabledByContent = _seachEnabledByContent]
            ELSE memento
    IN  IF _searchController = NoDelegate
        THEN [memento |-> saved, failure |-> "none"]
        ELSE IF memento.kind # "Media"
        THEN [memento |-> saved, failure |-> "Assert"]
        ELSE [memento |->
                  [saved EXCEPT !.searchState =
                       SearchController_saveState(_searchController)],
              failure |-> "none"]

SaveSearchState(memento) ==
    /\ Running
    /\ LET out == saveSearchState(memento)
       IN  /\ ret' = Result("saveSearchState", memento, out.memento)
           /\ failure' = out.failure
    /\ UNCHANGED <<alive, _key, _migrated, _section, searchVars, sessionVars,
                   migrationVars, widgetAlive, downloadVars, viewerVars>>

\* A validateMementoPeer that does not compare the settings owner.
validateMementoPeerNoSettings(memento) ==
    /\ Memento_peer(memento) = peer
    /\ memento.migratedPeerId = migratedPeerId

\* Controller::validateMementoPeer(memento)
validateMementoPeer(memento) ==
    /\ Memento_peer(memento) = peer
    /\ memento.migratedPeerId = migratedPeerId
    /\ Memento_settingsSelf(memento) = settingsSelf

ValidateMementoPeer(memento) ==
    /\ Running
    /\ ret' = Result("validateMementoPeer", memento,
                     validateMementoPeer(memento))
    /\ UNCHANGED <<controllerVars, sessionVars, migrationVars, widgetAlive,
                   downloadVars, viewerVars>>

\* _searchController->idsSlice(aroundId, limitBefore, limitAfter)
IdsSlice(aroundId, limitBefore, limitAfter) ==
    [source |-> "idsSlice", aroundId |-> aroundId,
     limitBefore |-> limitBefore, limitAfter |-> limitAfter]

\* SharedMediaMergedViewer(&session(), SharedMediaMergedKey(
\*     SparseIdsMergedSlice::Key(peerId, migratedPeerId, aroundId), type),
\*     limitBefore, limitAfter)
SharedMediaMergedViewer(peerId, migrated, aroundId, type, before, after) ==
    [source |-> "SharedMediaMergedViewer",
     key |-> [peerId |-> peerId, migratedPeerId |-> migrated,
              aroundId |-> aroundId],
     type |-> type,
     limitBefore |-> before, limitAfter |-> after]

\* A mediaSource that keys the viewer as AbstractController::mediaSource
\* does, by the controller's own peer, migrated peer and section.
mediaSourceOwnKey(aroundId, limitBefore, limitAfter) ==
    IF _searchController.query.query # ""
    THEN IdsSlice(aroundId, limitBefore, limitAfter)
    ELSE SharedMediaMergedViewer(
             IF peer = Null THEN 0 ELSE PeerIdOf(peer), migratedPeerId,
             aroundId, _section.mediaType, limitBefore, limitAfter)

\* Controller::mediaSource(aroundId, limitBefore, limitAfter) with a
\* content-search delegate
mediaSource(aroundId, limitBefore, limitAfter) ==
    LET query == _searchController.query
    IN  IF query.query # ""
        THEN IdsSlice(aroundId, limitBefore, limitAfter)
        ELSE SharedMediaMergedViewer(
                 query.peerId, query.migratedPeerId, aroundId, query.type,
                 limitBefore, limitAfter)

\* Controller::mediaSource; without a content-search delegate it
\* dereferences a null unique_ptr, and anything may come back.
MediaSource(aroundId, limitBefore, limitAfter) ==
    /\ Running
    /\ IF _searchController # NoDelegate
       THEN /\ ret' = Result("mediaSource",
                             <<aroundId, limitBefore, limitAfter>>,
                             mediaSource(aroundId, limitBefore, limitAfter))
            /\ UNCHANGED failure
       ELSE /\ \E q \in {DefaultSearchState.query, EarlierSearchState.query} :
                   ret' = Result("mediaSource",
                                 <<aroundId, limitBefore, limitAfter>>,
                                 IF q.query # ""
                                 THEN IdsSlice(aroundId, limitBefore,
                                               limitAfter)
                                 ELSE SharedMediaMergedViewer(
                                          q.peerId, q.migratedPeerId,
                                          aroundId, q.type, limitBefore,
                                          limitAfter))
            /\ failure' = "UB"
    /\ UNCHANGED <<alive, _key, _migrated, _section, searchVars, sessionVars,
                   migrationVars, widgetAlive, downloadVars, viewerVars>>

\* Controller::searchEnabledByContent(): the value its producer holds.
searchEnabledByContent == _seachEnabledByContent

\* A mediaSourceQueryValue that answers with the constant producer alone.
mediaSourceQueryValueSingle ==
    [source |-> "single", first |-> ""]

\* Controller::mediaSourceQueryValue(): which producer it returns and the
\* value that producer emits to a new subscriber.
mediaSourceQueryValue ==
    IF _searchController # NoDelegate
    THEN [source |-> "currentQueryValue",
          first |-> _searchController.query.query]
    ELSE [source |-> "single", first |-> ""]

\* A consumer subscribes to mediaSourceQueryValue().
MediaSourceQueryValue ==
    /\ Running
    /\ queryViewer = NoViewer
    /\ LET producer == mediaSourceQueryValue
       IN  /\ queryViewer' = [source |-> producer.source,
                              log |-> <<producer.first>>]
           /\ ret' = Result("mediaSourceQueryValue", <<>>, producer.first)
    /\ UNCHANGED <<controllerVars, sessionVars, migrationVars, widgetAlive,
                   downloadVars, widgetCalls>>

\* AbstractController::showSection(memento, params): the call
\* parentController() receives.
AbstractController_showSection(memento, params) ==
    [method |-> "showSection", memento |-> memento, way |-> params.way,
     animation |-> params.animation, activation |-> params.activation,
     notification |-> 0]

\* AbstractController::showBackFromStack(params): the call
\* parentController() receives.
AbstractController_showBackFromStack(params) ==
    [method |-> "showBackFromStack", way |-> params.way,
     animation |-> params.animation, activation |-> params.activation,
     notification |-> 0]

\* A call the WrapWidget receives, with its answer and the number of calls
\* the navigator had received by then.
WidgetCall(method, args, handled) ==
    [method |-> method, args |-> args, handled |-> handled,
     navigated |-> Len(navigator)]

\* A showSection that forwards to the navigator whatever the widget says.
ShowSectionAlways(memento, params, handled) ==
    /\ Running
    /\ Len(widgetCalls) < MaxShows
    /\ widgetCalls' =
           Append(widgetCalls,
                  WidgetCall("showInternal", <<memento, params>>, handled))
    /\ navigator' =
           Append(navigator, AbstractController_showSection(memento, params))
    /\ ret' = Result("showSection", <<memento, params>>, handled)
    /\ UNCHANGED <<controllerVars, sessionVars, watching, notifications,
                   queue, widgetAlive, downloadVars, queryViewer>>

\* Controller::showSection(memento, params); handled is what
\* _widget->showInternal answers.
ShowSection(memento, params, handled) ==
    /\ Running
    /\ Len(widgetCalls) < MaxShows
    /\ widgetCalls' =
           Append(widgetCalls,
                  WidgetCall("showInternal", <<memento, params>>, handled))
    /\ navigator' =
           IF ~handled
           THEN Append(navigator,
                       AbstractController_showSection(memento, params))
           ELSE navigator
    /\ ret' = Result("showSection", <<memento, params>>, handled)
    /\ UNCHANGED <<controllerVars, sessionVars, watching, notifications,
                   queue, widgetAlive, downloadVars, queryViewer>>

\* Controller::showBackFromStack(params); handled is what
\* _widget->showBackFromStackInternal answers.
ShowBackFromStack(params, handled) ==
    /\ Running
    /\ Len(widgetCalls) < MaxShows
    /\ widgetCalls' =
           Append(widgetCalls,
                  WidgetCall("showBackFromStackInternal", <<params>>,
                             handled))
    /\ navigator' =
           IF ~handled
           THEN Append(navigator, AbstractController_showBackFromStack(params))
           ELSE navigator
    /\ ret' = Result("showBackFromStack", <<params>>, handled)
    /\ UNCHANGED <<controllerVars, sessionVars, watching, notifications,
                   queue, widgetAlive, downloadVars, queryViewer>>

\* A destructor that leaves the delegates and the subscriptions behind.
DestroyLeak ==
    /\ Running
    /\ alive' = "destroyed"
    /\ ret' = Result("~Controller", <<>>, Void)
    /\ UNCHANGED <<failure, _key, _migrated, _section, searchVars,
                   sessionVars, migrationVars, widgetAlive, downloadVars,
                   viewerVars>>

\* Controller::~Controller(): the delegates and the lifetime() holding the
\* migration subscription go with it.
Destroy ==
    /\ Running
    /\ alive' = "destroyed"
    /\ _searchController' = NoDelegate
    /\ _searchFieldController' = NoDelegate
    /\ watching' = FALSE
    /\ ret' = Result("~Controller", <<>>, Void)
    /\ queryViewer' = ViewerAfterRelease(queryViewer)
    /\ UNCHANGED <<failure, _key, _migrated, _section,
                   _seachEnabledByContent, _searchStartsFocused, sessionVars,
                   notifications, queue, navigator, widgetAlive,
                   downloadVars, widgetCalls>>

(* ------------------- session, event loop and widget ------------------- *)

\* The session records that a chat migrated: PeerData::migrateTo() of the
\* chat becomes the channel.
SetMigrateTo(p, target) ==
    /\ failure = "none"
    /\ isChat(p) /\ isChannel(target)
    /\ migrateTo[p] = Null
    /\ migrateTo' = [migrateTo EXCEPT ![p] = target]
    /\ ret' = Result("setMigrateTo", <<p, target>>, Void)
    /\ UNCHANGED <<controllerVars, migrateFrom, migrationVars, widgetAlive,
                   downloadVars, viewerVars>>

\* The session records where a channel came from: PeerData::migrateFrom()
\* of the channel becomes the chat.
SetMigrateFrom(p, source) ==
    /\ failure = "none"
    /\ isChannel(p) /\ isChat(source)
    /\ migrateFrom[p] = Null
    /\ migrateFrom' = [migrateFrom EXCEPT ![p] = source]
    /\ ret' = Result("setMigrateFrom", <<p, source>>, Void)
    /\ UNCHANGED <<controllerVars, migrateTo, migrationVars, widgetAlive,
                   downloadVars, viewerVars>>

\* peerFlagsValue(peer, Flag::Migration) fires for the watched peer: the
\* subscription of setupMigrationViewer runs its filter and its handler.
MigrationNotification ==
    /\ failure = "none"
    /\ watching
    /\ Len(notifications) < MaxNotifications
    /\ MigrationValue(Key_peer(_key), _section, _migrated)
    /\ ret' = Result("migrationNotification", Key_peer(_key), Void)
    /\ UNCHANGED <<controllerVars, sessionVars, watching, widgetAlive,
                   downloadVars, viewerVars>>

\* The event loop runs the oldest task posted to the widget.
RunQueued ==
    /\ failure = "none"
    /\ widgetAlive
    /\ queue # <<>>
    /\ navigator' = Append(navigator, ShowSectionCall(Head(queue)))
    /\ queue' = Tail(queue)
    /\ ret' = Result("invokeQueued", Head(queue).notification, Void)
    /\ UNCHANGED <<controllerVars, sessionVars, watching, notifications,
                   widgetAlive, downloadVars, viewerVars>>

\* The WrapWidget is destroyed: its Controller goes with it and the tasks
\* posted to it are dropped.
DestroyWidget ==
    /\ failure = "none"
    /\ widgetAlive
    /\ widgetAlive' = FALSE
    /\ queue' = <<>>
    /\ alive' = IF alive = "alive" THEN "destroyed" ELSE alive
    /\ _searchController' = NoDelegate
    /\ _searchFieldController' = NoDelegate
    /\ watching' = FALSE
    /\ ret' = Result("~WrapWidget", <<>>, Void)
    /\ queryViewer' = ViewerAfterRelease(queryViewer)
    /\ UNCHANGED <<failure, _key, _migrated, _section,
                   _seachEnabledByContent, _searchStartsFocused, sessionVars,
                   notifications, navigator, downloadVars, widgetCalls>>

(* --------------------------- downloadsSource -------------------------- *)

Items == {"a", "b"}

\* The elements of DownloadManager::loadingList().
DownloadingIds == [object : [item : Items], started : 0..MaxStarted]

\* The injective maps of 1..n onto itself.
IndexPermutations(n) ==
    {f \in [1..n -> 1..n] : \A i, j \in 1..n : f[i] = f[j] => i = j}

\* The orders of entries.
Reorderings(entries) ==
    {[i \in 1..Len(entries) |-> entries[f[i]]] :
        f \in IndexPermutations(Len(entries))}

IsSortedByStarted(entries) ==
    \A i, j \in 1..Len(entries) :
        i < j => entries[i].started <= entries[j].started

\* The entries unsorted, as the loop of downloadsSource pushed them.
Unsorted(entries) == {entries}

\* ranges::sort(result.entries, ranges::less(), &DownloadsEntry::started):
\* the sort is not stable, so entries of equal start may end in any order.
SortByStarted(entries) ==
    {sorted \in Reorderings(entries) : IsSortedByStarted(sorted)}

\* The slices the rpl::map of downloadsSource can produce from a list.
DownloadsSlices(list) ==
    LET entries ==
            [i \in 1..Len(list) |->
                [item |-> list[i].object.item, started |-> list[i].started]]
    IN  {[entries |-> sorted] : sorted \in SortByStarted(entries)}

\* One value through the rpl::map of downloadsSource, to the subscriber.
Emit(list) ==
    /\ \E s \in DownloadsSlices(list) : slice' = s
    /\ emitted' = emitted + 1

\* A subscription that waits for the first change, without rpl::single.
SubscribeWithoutSingle ==
    /\ ~subscribed
    /\ subscribed' = TRUE
    /\ UNCHANGED <<controllerVars, ret, sessionVars, migrationVars,
                   widgetAlive, loadingList, changes, emitted, slice,
                   viewerVars>>

\* A consumer subscribes to downloadsSource(): rpl::single fires at once.
Subscribe ==
    /\ ~subscribed
    /\ subscribed' = TRUE
    /\ Emit(loadingList)
    /\ UNCHANGED <<controllerVars, ret, sessionVars, migrationVars,
                   widgetAlive, loadingList, changes, viewerVars>>

\* The download manager changed its list to newList and fired
\* loadingListChanges().
ListChanged(newList) ==
    /\ loadingList' = newList
    /\ IF subscribed
       THEN /\ changes < MaxListChanges
            /\ changes' = changes + 1
            /\ Emit(newList)
       ELSE UNCHANGED <<changes, emitted, slice>>
    /\ UNCHANGED <<controllerVars, ret, sessionVars, migrationVars,
                   widgetAlive, subscribed, viewerVars>>

\* A download starts: the manager appends it.
DownloadStarted(id) ==
    /\ Len(loadingList) < MaxLoading
    /\ ListChanged(Append(loadingList, id))

\* A download finishes or is cancelled: the manager removes it.
DownloadRemoved(i) ==
    /\ i \in 1..Len(loadingList)
    /\ ListChanged(SubSeq(loadingList, 1, i - 1)
                   \o SubSeq(loadingList, i + 1, Len(loadingList)))

(* ---------------------------- specifications -------------------------- *)

Init ==
    /\ alive = "unborn"
    /\ failure = "none"
    /\ _key = Key_Downloads
    /\ _migrated = Null
    /\ _section = [type |-> "Downloads", mediaType |-> "Photo"]
    /\ _searchController = NoDelegate
    /\ _searchFieldController = NoDelegate
    /\ _seachEnabledByContent = FALSE
    /\ _searchStartsFocused = FALSE
    /\ ret = Result("none", <<>>, Void)
    /\ migrateTo = [p \in Peers |-> Null]
    /\ migrateFrom = [p \in Peers |-> Null]
    /\ watching = FALSE
    /\ notifications = <<>>
    /\ queue = <<>>
    /\ widgetAlive = TRUE
    /\ navigator = <<>>
    /\ loadingList = <<>>
    /\ subscribed = FALSE
    /\ changes = 0
    /\ emitted = 0
    /\ slice = [entries |-> <<>>]
    /\ queryViewer = NoViewer
    /\ widgetCalls = <<>>

\* The mementos a navigator hands to setSection: those it validated.
SectionMementos == MementosOf({_key}, {migratedPeerId}, Sections)

\* The mementos saveSearchState is handed: they differ in what it writes
\* and in their dynamic type.
SaveMementos ==
    {m \in MementosOf({_key}, {migratedPeerId}, {_section}) :
        ~m.searchStartsFocused /\ m.searchState = DefaultSearchState}

\* The mementos validateMementoPeer is handed: they differ in what it
\* reads.
ValidateMementos ==
    {m \in MementosOf(Keys, MigratedPeerIds, {_section}) :
        /\ m.searchFieldQuery = ""
        /\ ~m.searchEnabledByContent /\ ~m.searchStartsFocused
        /\ m.kind = "Other"}

MediaSourceArgs == {<<0, 10, 20>>, <<5, 3, 10>>}

\* The keys of the search runs: a channel, a user and the downloads list.
SearchKeys == {Key_Peer("channel"), Key_Peer("user"), Key_Downloads}

\* The controller and its search delegates.
Next ==
    \/ \E m \in MementosOf(SearchKeys, MigratedPeerIds, Sections) :
           Construct(m)
    \/ \E m \in SectionMementos : SetSection(m)
    \/ \E t \in Texts : QueryChanged(t)
    \/ \E m \in SaveMementos : SaveSearchState(m)
    \/ \E a \in MediaSourceArgs : MediaSource(a[1], a[2], a[3])
    \/ Destroy

Spec == Init /\ [][Next]_vars

\* The sections of the migration runs.
MigrationSections ==
    {s \in Sections : s.type = "Profile" \/ s.mediaType = "File"}

\* The mementos of the migration runs: no saved search.
MigrationMementosOf(keys, ids) ==
    {m \in MementosOf(keys, ids, MigrationSections) :
        /\ m.searchFieldQuery = ""
        /\ ~m.searchEnabledByContent /\ ~m.searchStartsFocused
        /\ m.kind = (IF m.section.type = "Media" THEN "Media" ELSE "Other")
        /\ m.searchState = DefaultSearchState}

\* The controller's identity, the session's migrations and the event loop.
NextMigration ==
    \/ \E m \in MigrationMementosOf(Keys, MigratedPeerIds) : Construct(m)
    \/ \E m \in MigrationMementosOf({_key}, {migratedPeerId}) : SetSection(m)
    \/ \E p, q \in Peers : SetMigrateTo(p, q)
    \/ \E p, q \in Peers : SetMigrateFrom(p, q)
    \/ \E m \in ValidateMementos : ValidateMementoPeer(m)
    \/ MigrationNotification
    \/ RunQueued
    \/ Destroy
    \/ DestroyWidget

SpecMigration == Init /\ [][NextMigration]_vars

\* The event loop keeps running the tasks posted to it.
FairSpecMigration == SpecMigration /\ WF_vars(RunQueued)

\* The download manager and one subscriber of downloadsSource.
NextDownloads ==
    \/ Subscribe
    \/ \E id \in DownloadingIds : DownloadStarted(id)
    \/ \E i \in 1..MaxLoading : DownloadRemoved(i)

SpecDownloads == Init /\ [][NextDownloads]_vars

\* A SavedState whose query is keyed to the memento's own peer, migrated
\* peer id and media type, with no text.
OwnSearchState(key, id, section) ==
    [query |-> [type |-> section.mediaType,
                peerId |-> IF Key_peer(key) = Null
                           THEN 0 ELSE PeerIdOf(Key_peer(key)),
                migratedPeerId |-> id, query |-> ""]]

\* The mementos of the query runs: of the dynamic type of their section,
\* with a default, an earlier or an own saved search state.
QueryMementosOf(keys, ids) ==
    UNION {
        {[key |-> k, section |-> s, migratedPeerId |-> i,
          searchFieldQuery |-> t, searchEnabledByContent |-> FALSE,
          searchStartsFocused |-> FALSE,
          kind |-> IF s.type = "Media" THEN "Media" ELSE "Other",
          searchState |-> st] :
            t \in Texts,
            st \in IF s.type = "Media"
                   THEN {DefaultSearchState, EarlierSearchState,
                         OwnSearchState(k, i, s)}
                   ELSE {DefaultSearchState}} :
        k \in keys, i \in ids, s \in Sections}

QuerySourceArgs == {<<0, 10, 10>>, <<5, 10, 10>>}

\* The controller, its search delegates and a subscriber of
\* mediaSourceQueryValue().
NextQuery ==
    \/ \E m \in QueryMementosOf(SearchKeys, MigratedPeerIds) : Construct(m)
    \/ \E m \in QueryMementosOf({_key}, {migratedPeerId}) : SetSection(m)
    \/ \E t \in Texts : QueryChanged(t)
    \/ MediaSourceQueryValue
    \/ \E a \in QuerySourceArgs : MediaSource(a[1], a[2], a[3])
    \/ Destroy

SpecQuery == Init /\ [][NextQuery]_vars

\* The keys of the lifetime runs: the two peers that can migrate.
LifetimeKeys == {Key_Peer("chat"), Key_Peer("channel")}

\* The controller with its query field and its migration watcher, up to
\* and past its destruction.
NextLifetime ==
    \/ \E m \in MigrationMementosOf(LifetimeKeys, MigratedPeerIds) :
           Construct(m)
    \/ \E m \in MigrationMementosOf({_key}, {migratedPeerId}) : SetSection(m)
    \/ \E t \in Texts : QueryChanged(t)
    \/ \E p, q \in Peers : SetMigrateTo(p, q)
    \/ MigrationNotification
    \/ RunQueued
    \/ Destroy

SpecLifetime == Init /\ [][NextLifetime]_vars

\* The Window::SectionMementos a controller is asked to show.
ShowMementos ==
    {[peer |-> "channel", section |-> s] : s \in MigrationSections}

\* The Window::SectionShow parameters of the show runs.
ShowParams ==
    {[way |-> "Forward", animation |-> "normal", activation |-> "normal"],
     [way |-> "Backward", animation |-> "instant",
      activation |-> "background"]}

\* The controller between its panel widget and the window's navigator.
NextShow ==
    \/ \E m \in MigrationMementosOf(SearchKeys, {0}) : Construct(m)
    \/ \E m \in ShowMementos, params \in ShowParams, handled \in BOOLEAN :
           ShowSection(m, params, handled)
    \/ \E params \in ShowParams, handled \in BOOLEAN :
           ShowBackFromStack(params, handled)
    \/ Destroy

SpecShow == Init /\ [][NextShow]_vars

(* -------------------------------- claims ------------------------------ *)

\* Which of peer(), settingsSelf(), isDownloads(), poll() are present.
Present(k) ==
    <<Key_peer(k) # Null, Key_settingsSelf(k) # Null, Key_isDownloads(k),
      Key_poll(k) # Null>>

\* C1: the Key of a constructed controller, built by one of the four
\* constructors, has exactly one of peer(), settingsSelf(), isDownloads(),
\* poll() present, the one of its constructor, holding what was stored; the
\* others are absent, and pollContextId() is the stored id for a Poll key
\* and the default id otherwise.
C1_KeyOneAccessor ==
    alive # "unborn" =>
        /\ Cardinality({i \in 1..4 : Present(_key)[i]}) = 1
        /\ \A p \in Peers :
               _key = Key_Peer(p) =>
                   Key_peer(_key) = p /\ Present(_key)[1]
        /\ \A u \in Users :
               _key = Key_Settings(u) =>
                   Key_settingsSelf(_key) = u /\ Present(_key)[2]
        /\ _key = Key_Downloads => Present(_key)[3]
        /\ \A q \in Polls, c \in FullMsgIds :
               _key = Key_Poll(q, c) =>
                   /\ Key_poll(_key) = q /\ Present(_key)[4]
                   /\ Key_pollContextId(_key) = c
        /\ ~Present(_key)[4] => Key_pollContextId(_key) = DefaultFullMsgId

\* C1 witness: a controller holds a Settings key.
C1_Witness ==
    alive = "alive" /\ _key = Key_Settings("self")

\* The showSection call the claims expect for notification n.
ExpectedCall(n) ==
    [method |-> "showSection",
     memento |-> [peer |-> notifications[n].peer,
                  section |-> notifications[n].section],
     way |-> "Backward", animation |-> "instant",
     activation |-> "background", notification |-> n]

\* The navigator's calls that answer notification n.
CallsFor(n) == {i \in DOMAIN navigator : navigator[i].notification = n}

\* C2: a migration notification handed to a watching controller while the
\* peer has a migration target leads, unless the widget dies, to exactly one
\* showSection call on the navigator for it: memento of the peer itself and
\* of the section the controller showed, Backward, instant, background; and
\* no notification ever gets more than one call or another call.
C2_MigrationShowsSection ==
    /\ [](\A n \in 1..Len(notifications) :
              /\ Cardinality(CallsFor(n)) <= 1
              /\ \A i \in CallsFor(n) : navigator[i] = ExpectedCall(n))
    /\ \A n \in 1..MaxNotifications :
           (n <= Len(notifications) /\ notifications[n].to # Null)
               ~> (~widgetAlive
                   \/ (/\ Cardinality(CallsFor(n)) = 1
                       /\ \A i \in CallsFor(n) :
                              navigator[i] = ExpectedCall(n)))

\* C2 witness: the navigator got the call of a notification that found a
\* migration target, from a controller watching a chat.
C2_Witness ==
    /\ widgetAlive
    /\ \E i \in DOMAIN navigator :
           /\ notifications[navigator[i].notification].to # Null
           /\ navigator[i].memento.peer = "chat"

\* C3: the step that hands the watcher a notification never calls the
\* navigator: when its filter passes it only posts one task for that
\* notification; and every step in which the navigator gets a call is a
\* later event-loop step that takes the oldest posted task, whose
\* notification was handed over before.
C3_NavigationDeferred ==
    [][/\ Len(notifications') > Len(notifications) =>
              /\ navigator' = navigator
              /\ LET n == Len(notifications')
                 IN  (notifications'[n].to # Null
                      \/ notifications'[n].from # _migrated) =>
                         /\ Len(queue') = Len(queue) + 1
                         /\ queue'[Len(queue')].notification = n
       /\ navigator' # navigator =>
              /\ notifications' = notifications
              /\ queue # <<>>
              /\ Head(queue).notification <= Len(notifications)
              /\ queue' = Tail(queue)
              /\ Len(navigator') = Len(navigator) + 1
              /\ navigator'[Len(navigator')].notification
                     = Head(queue).notification]_vars

\* C3 witness: a task of a notification waits in the queue while the
\* navigator has not been called for it.
C3_Witness ==
    /\ alive = "alive"
    /\ queue # <<>>
    /\ CallsFor(Head(queue).notification) = {}
    /\ Len(notifications) = MaxNotifications

\* The entry downloadsSource makes of a loading-list element.
EntryOf(id) == [item |-> id.object.item, started |-> id.started]

\* How often x occurs in seq.
Count(seq, x) == Cardinality({i \in DOMAIN seq : seq[i] = x})

\* The entries hold one entry per element of list, none added or dropped.
IsPermutationOf(entries, list) ==
    /\ Len(entries) = Len(list)
    /\ \A i \in DOMAIN list :
           Count(entries, EntryOf(list[i]))
               = Cardinality({j \in DOMAIN list :
                                  EntryOf(list[j]) = EntryOf(list[i])})

\* C4: every step that emits a slice emits one whose entries are sorted
\* non-decreasing by started and are a permutation of the loading list as
\* it is at that emission.
C4_SliceSortedPermutation ==
    [][emitted' # emitted =>
           /\ \A i, j \in DOMAIN slice'.entries :
                  i < j => slice'.entries[i].started
                               <= slice'.entries[j].started
           /\ IsPermutationOf(slice'.entries, loadingList')]_vars

\* C4 witness: a slice was emitted for a list of three whose start times
\* stand in decreasing order.
C4_Witness ==
    /\ subscribed
    /\ Len(loadingList) = 3
    /\ loadingList[1].started > loadingList[3].started
    /\ Len(slice.entries) = 3

\* C5: a subscriber has received one slice for its subscription and one
\* per change notification since, the last of them a rebuild of the list as
\* the manager holds it now.
C5_EmissionPerChange ==
    subscribed =>
        /\ emitted = 1 + changes
        /\ IsPermutationOf(slice.entries, loadingList)

\* C5 witness: a subscriber saw the list grow and shrink.
C5_Witness ==
    /\ subscribed
    /\ changes = MaxListChanges
    /\ emitted = MaxListChanges + 1
    /\ Len(loadingList) = 1

\* The last operation ran updateSearchControllers to its end.
AfterUpdate == ret.op \in {"Controller", "setSection"} /\ Running

\* C6 as stated: for every section, saveSearchState right after
\* updateSearchControllers(snapshot) leaves snapshot2 with the snapshot's
\* searchFieldQuery and searchEnabledByContent.
C6_RoundTripEverySection ==
    [][(AfterUpdate /\ ret'.op = "saveSearchState") =>
           /\ ret'.val.searchFieldQuery = ret.arg.searchFieldQuery
           /\ ret'.val.searchEnabledByContent
                  = ret.arg.searchEnabledByContent]_vars

\* C6 amended: saveSearchState right after updateSearchControllers(snapshot)
\* leaves snapshot2 with the snapshot's searchFieldQuery and
\* searchEnabledByContent when the section got a query-field delegate, and
\* leaves both fields of snapshot2 as they were when it got none.
C6_RoundTripWithField ==
    [][(AfterUpdate /\ ret'.op = "saveSearchState") =>
           IF _searchFieldController # NoDelegate
           THEN /\ ret'.val.searchFieldQuery = ret.arg.searchFieldQuery
                /\ ret'.val.searchEnabledByContent
                       = ret.arg.searchEnabledByContent
           ELSE /\ ret'.val.searchFieldQuery = ret'.arg.searchFieldQuery
                /\ ret'.val.searchEnabledByContent
                       = ret'.arg.searchEnabledByContent]_vars

\* C6 witness: with no query change since the field was made, a save wrote
\* the restored text and flag over a snapshot that held others.
C6_Witness ==
    /\ ret.op = "saveSearchState"
    /\ _searchFieldController # NoDelegate
    /\ _searchFieldController.changed = <<>>
    /\ ret.arg.searchFieldQuery = "" /\ ret.val.searchFieldQuery = "cats"
    /\ ~ret.arg.searchEnabledByContent /\ ret.val.searchEnabledByContent
    /\ ~_searchStartsFocused

\* What a caller can observe of the controller's section and search state.
Observable ==
    <<_section,
      _searchController # NoDelegate,
      _searchFieldController # NoDelegate,
      IF _searchFieldController # NoDelegate
      THEN _searchFieldController.query ELSE "",
      IF _searchController # NoDelegate
      THEN _searchController.query ELSE DefaultSearchState.query,
      _seachEnabledByContent,
      _searchStartsFocused,
      failure>>

\* C7: a setSection that repeats the setSection just made, with the same
\* snapshot, leaves the section, the presence of both delegates, the field's
\* text, the content search's current query and both flags as they were.
C7_SetSectionIdempotent ==
    [][(ret.op = "setSection" /\ ret'.op = "setSection"
        /\ ret'.arg = ret.arg) => Observable' = Observable]_vars

\* C7 witness: a setSection moved a controller to a searchable media
\* section, and the same call can be made again.
C7_Witness ==
    /\ ret.op = "setSection"
    /\ _section = ret.arg.section
    /\ _searchController # NoDelegate
    /\ _searchFieldController # NoDelegate
    /\ ret.arg.searchFieldQuery = "cats"
    /\ ENABLED SetSection(ret.arg)

\* C8: validateMementoPeer answers true exactly when the snapshot's peer is
\* the controller's, its migrated peer id is the id of the controller's
\* migrated peer (0 for none) and its settings owner is the controller's;
\* and the call leaves the controller as it was.
C8_ValidateMementoPeer ==
    /\ [](ret.op = "validateMementoPeer" =>
            (ret.val <=>
                /\ \/ /\ ret.arg.key.tag = "Peer" /\ _key.tag = "Peer"
                      /\ ret.arg.key.value.peer = _key.value.peer
                   \/ ret.arg.key.tag # "Peer" /\ _key.tag # "Peer"
                /\ ret.arg.migratedPeerId
                       = (IF _migrated = Null THEN 0 ELSE PeerIdOf(_migrated))
                /\ \/ /\ ret.arg.key.tag = "Settings" /\ _key.tag = "Settings"
                      /\ ret.arg.key.value.self = _key.value.self
                   \/ ret.arg.key.tag # "Settings" /\ _key.tag # "Settings"))
    /\ [][ret'.op = "validateMementoPeer" => UNCHANGED controllerVars]_vars

\* C8 witness: a snapshot that differs from a settings controller in its
\* settings owner alone was refused.
C8_Witness ==
    /\ ret.op = "validateMementoPeer"
    /\ ~ret.val
    /\ _key = Key_Settings("self")
    /\ ret.arg.key = Key_Downloads
    /\ ret.arg.migratedPeerId = migratedPeerId

\* The SearchQuery the claims expect for a text.
ExpectedQuery(text) ==
    [type |-> _section.mediaType,
     peerId |-> PeerIdOf(_key.value.peer),
     migratedPeerId |-> IF _migrated = Null THEN 0 ELSE PeerIdOf(_migrated),
     query |-> text]

\* C9: while both delegates exist the key is a peer's, and every change of
\* the field's text hands the content-search delegate one more query, built
\* of the section's media type, the peer's id, the migrated peer's id or 0
\* and the new text.
C9_QueryForwarded ==
    /\ []((Running /\ _searchController # NoDelegate
           /\ _searchFieldController # NoDelegate) => _key.tag = "Peer")
    /\ [][(/\ _searchController # NoDelegate
           /\ _searchFieldController # NoDelegate
           /\ ret'.op = "queryChanged"
           /\ _searchFieldController'.changed
                  = Append(_searchFieldController.changed, ret'.arg)) =>
              /\ failure' = "none"
              /\ _searchController'.received
                     = Append(_searchController.received,
                              ExpectedQuery(ret'.arg))]_vars

\* C9 witness: two changes of the text reached the content-search delegate
\* of a controller with a migrated peer.
C9_Witness ==
    /\ ret.op = "queryChanged"
    /\ _migrated # Null
    /\ _searchController # NoDelegate
    /\ Len(_searchFieldController.changed) = 2
    /\ Len(_searchController.received) >= 2
    /\ _searchController.query.query = ret.arg

\* C10: with a content-search delegate, mediaSource answers by its current
\* query alone: the delegate's idsSlice of the three arguments when the text
\* is not empty, and otherwise the merged viewer keyed by the query's peer
\* id, migrated peer id and media type with the given aroundId and limits.
C10_MediaSourceByQuery ==
    (ret.op = "mediaSource" /\ failure = "none") =>
        LET query == _searchController.query
        IN  IF query.query # ""
            THEN ret.val = [source |-> "idsSlice", aroundId |-> ret.arg[1],
                            limitBefore |-> ret.arg[2],
                            limitAfter |-> ret.arg[3]]
            ELSE ret.val = [source |-> "SharedMediaMergedViewer",
                            key |-> [peerId |-> query.peerId,
                                     migratedPeerId |-> query.migratedPeerId,
                                     aroundId |-> ret.arg[1]],
                            type |-> query.type,
                            limitBefore |-> ret.arg[2],
                            limitAfter |-> ret.arg[3]]

\* C10 witness: mediaSource answered with the merged viewer of a restored
\* query whose peer is not the controller's.
C10_Witness ==
    /\ ret.op = "mediaSource" /\ failure = "none"
    /\ ret.val.source = "SharedMediaMergedViewer"
    /\ _key.tag = "Peer"
    /\ ret.val.key.peerId # PeerIdOf(_key.value.peer)

\* The snapshot of scenario A: a peer's key, no migrated peer, a media
\* section and no saved text.
ScenarioA(m) ==
    /\ m.key.tag = "Peer"
    /\ m.migratedPeerId = 0
    /\ m.section.type = "Media"
    /\ m.searchFieldQuery = ""

\* Right after a construction from a scenario A snapshot,
\* mediaSourceQueryValue() emits the empty text and mediaSource(anchor, 10,
\* 10) is the merged viewer keyed to the controller's peer, no migrated
\* peer, the anchor and the section's media type.
ScenarioAResults ==
    /\ ret'.op = "mediaSourceQueryValue" => ret'.val = ""
    /\ (ret'.op = "mediaSource" /\ ret'.arg[2] = 10 /\ ret'.arg[3] = 10) =>
           ret'.val = [source |-> "SharedMediaMergedViewer",
                       key |-> [peerId |-> PeerIdOf(_key.value.peer),
                                migratedPeerId |-> 0,
                                aroundId |-> ret'.arg[1]],
                       type |-> _section.mediaType,
                       limitBefore |-> 10, limitAfter |-> 10]

SavedStateOwn(m) ==
    \/ SharedMediaAllowSearch(m.section.mediaType)
    \/ m.searchState = OwnSearchState(m.key, 0, m.section)

C12_QueryValueSource ==
    /\ [][ret'.op = "mediaSourceQueryValue" =>
             /\ queryViewer'.source =
                    IF _searchController # NoDelegate
                    THEN "currentQueryValue" ELSE "single"
             /\ _section.type = "Downloads" => queryViewer'.source = "single"
             /\ ret'.val = IF _searchController # NoDelegate
                           THEN _searchController.query.query ELSE ""]_vars
    /\ [](queryViewer.source = "currentQueryValue" =>
              /\ _searchController # NoDelegate
              /\ queryViewer.log[Len(queryViewer.log)]
                     = _searchController.query.query)
    /\ [](queryViewer.source = "single" => queryViewer.log = <<"">>)
    /\ []((Running /\ _section.type = "Downloads") =>
              /\ _searchController = NoDelegate
              /\ _searchFieldController = NoDelegate)

\* C12 witness: a subscriber of the live producer received the text the
\* delegate held at subscription and the two texts typed since.
C12_Witness ==
    /\ queryViewer.source = "currentQueryValue"
    /\ queryViewer.log = <<"", "cats", "">>
    /\ _searchController.query.query = ""

\* The content-search delegate's log of the queries it was handed.
Received(sc) == IF sc = NoDelegate THEN <<>> ELSE sc.received

\* C13: once the controller is destroyed no migration notification is
\* handled for it and no task is posted for it, and it holds no delegate;
\* a content-search delegate is handed a query only by a text change of the
\* query-field delegate that exists before and after the step, with that
\* text, or, in the step that creates the field, with the field's initial
\* text: the texts of a field that setSection replaced reach no delegate.
C13_SubscriptionsDieWithOwner ==
    /\ [][alive = "destroyed" =>
             /\ notifications' = notifications
             /\ queue' = queue \/ (queue # <<>> /\ queue' = Tail(queue))
             /\ Received(_searchController') = Received(_searchController)]_vars
    /\ [](alive = "destroyed" =>
             /\ ~watching
             /\ _searchController = NoDelegate
             /\ _searchFieldController = NoDelegate)
    /\ [][IF ret'.op = "queryChanged"
          THEN /\ alive = "alive"
               /\ _searchFieldController # NoDelegate
               /\ _searchFieldController' =
                      [_searchFieldController EXCEPT
                          !.query = ret'.arg,
                          !.changed = Append(@, ret'.arg)]
               /\ Received(_searchController') \in
                      {Received(_searchController),
                       Append(Received(_searchController),
                              ExpectedQuery(ret'.arg))}
          ELSE IF ret'.op \in {"Controller", "setSection"}
          THEN \/ Received(_searchController') = <<>>
               \/ /\ _searchFieldController' # NoDelegate
                  /\ _searchFieldController'.changed = <<>>
                  /\ _searchFieldController'.query
                         = ret'.arg.searchFieldQuery
                  /\ Len(Received(_searchController')) = 1
                  /\ Received(_searchController')[1].query
                         = ret'.arg.searchFieldQuery
          ELSE Received(_searchController') \in
                   {Received(_searchController), <<>>}]_vars

\* C13 witness: the chat migrated after its controller was destroyed, the
\* one notification the watcher was handed dating from before.
C13_Witness ==
    /\ alive = "destroyed"
    /\ ret.op = "setMigrateTo"
    /\ _key = Key_Peer("chat")
    /\ migrateTo["chat"] # Null
    /\ Len(notifications) = 1
    /\ notifications[1].to = Null
    /\ queue = <<>>

\* C14: a running controller has a content-search delegate exactly when
\* its section is a Media section; the delegate a construction or a
\* setSection leaves is a new one, holding the snapshot's saved query, or,
\* when a query field was created with it, the one query made of the
\* field's initial text, and no query an earlier delegate was handed.
C14_SearchControllerIffMedia ==
    /\ [](Running =>
             (_searchController # NoDelegate <=> _section.type = "Media"))
    /\ [][(/\ ret'.op \in {"Controller", "setSection"}
           /\ failure' = "none"
           /\ _section'.type = "Media") =>
              IF _searchFieldController' # NoDelegate
              THEN /\ _searchController'.received
                         = <<ExpectedQuery(ret.arg.searchFieldQuery)'>>
                   /\ _searchController'.query
                         = ExpectedQuery(ret.arg.searchFieldQuery)'
              ELSE /\ _searchController'.received = <<>>
                   /\ _searchController'.query
                         = ret'.arg.searchState.query]_vars

\* C14 witness: a setSection into the photo section left a content-search
\* delegate holding the snapshot's saved query and nothing else.
C14_Witness ==
    /\ ret.op = "setSection" /\ Running
    /\ _section = [type |-> "Media", mediaType |-> "Photo"]
    /\ ret.arg.searchState = EarlierSearchState
    /\ _searchController
           = [query |-> EarlierSearchState.query, received |-> <<>>]

\* The section supports media search, common-groups search or members
\* search.
SupportsSearch(section) ==
    \/ section.type = "Media" /\ section.mediaType = "File"
    \/ section.type \in {"CommonGroups", "Members", "Profile"}

\* The query-field delegate exists exactly for a section that supports
\* search, and a construction or a setSection leaves it with the snapshot's
\* saved text and no change.
FieldIffSupportsSearch ==
    /\ [](Running =>
             (_searchFieldController # NoDelegate
                  <=> SupportsSearch(_section)))
    /\ [][(/\ ret'.op \in {"Controller", "setSection"}
           /\ failure' = "none"
           /\ _searchFieldController' # NoDelegate) =>
              /\ _searchFieldController'.query = ret'.arg.searchFieldQuery
              /\ _searchFieldController'.changed = <<>>]_vars

\* C15 as stated: the query-field delegate exists exactly for a section
\* that supports search, with the snapshot's saved text as its initial
\* text; for a section that supports none both delegates are absent.
C15_BothAbsentWithoutSearch ==
    /\ FieldIffSupportsSearch
    /\ []((Running /\ ~SupportsSearch(_section)) =>
              /\ _searchFieldController = NoDelegate
              /\ _searchController = NoDelegate)

\* C15 amended: the query-field delegate exists exactly for a section that
\* supports search, with the snapshot's saved text as its initial text; for
\* a section that supports none the query-field delegate is absent, and
\* the content-search delegate is absent unless the section is a Media
\* section, which keeps a content-search delegate of its own.
C15_FieldAbsentWithoutSearch ==
    /\ FieldIffSupportsSearch
    /\ []((Running /\ ~SupportsSearch(_section)) =>
              /\ _searchFieldController = NoDelegate
              /\ _searchController # NoDelegate
                     <=> _section.type = "Media")

\* C15 witness: a setSection into the photo section, which supports no
\* search, left no query field and a content-search delegate.
C15_Witness ==
    /\ ret.op = "setSection" /\ Running
    /\ _section = [type |-> "Media", mediaType |-> "Photo"]
    /\ ret.arg.searchFieldQuery = "cats"
    /\ _searchFieldController = NoDelegate
    /\ _searchController # NoDelegate

\* C16: a construction or a setSection that creates a query-field delegate
\* leaves the controller's two flags, and the value searchEnabledByContent()
\* shows, equal to the snapshot's; one that creates none leaves both flags
\* and that value as they were.
C16_FlagsCopiedWithField ==
    [][(ret'.op \in {"Controller", "setSection"} /\ failure' = "none") =>
           IF _searchFieldController' # NoDelegate
           THEN /\ _seachEnabledByContent' = ret'.arg.searchEnabledByContent
                /\ _searchStartsFocused' = ret'.arg.searchStartsFocused
                /\ searchEnabledByContent' = ret'.arg.searchEnabledByContent
           ELSE /\ _seachEnabledByContent' = _seachEnabledByContent
                /\ _searchStartsFocused' = _searchStartsFocused
                /\ searchEnabledByContent' = searchEnabledByContent]_vars

\* C16 witness: a setSection into a section without a query field left
\* both flags set, against a snapshot that holds neither.
C16_Witness ==
    /\ ret.op = "setSection" /\ Running
    /\ _searchFieldController = NoDelegate
    /\ ~ret.arg.searchEnabledByContent /\ ~ret.arg.searchStartsFocused
    /\ searchEnabledByContent /\ _searchStartsFocused

\* The widget's and the navigator's methods for a method of the controller.
InternalOf(op) ==
    IF op = "showSection" THEN "showInternal" ELSE "showBackFromStackInternal"

\* C17: every showSection and showBackFromStack of the controller hands
\* the widget one call of the Internal counterpart with the same arguments,
\* made before any call to the navigator; the navigator gets one call of
\* the same method with the same arguments when the widget answers false,
\* and no call when it answers true; and the navigator gets calls in no
\* other step.
C17_WidgetOfferedFirst ==
    [][/\ ret'.op \in {"showSection", "showBackFromStack"} =>
              /\ widgetCalls' =
                     Append(widgetCalls,
                            [method |-> InternalOf(ret'.op),
                             args |-> ret'.arg,
                             handled |-> ret'.val,
                             navigated |-> Len(navigator)])
              /\ IF ret'.val
                 THEN navigator' = navigator
                 ELSE /\ Len(navigator') = Len(navigator) + 1
                      /\ SubSeq(navigator', 1, Len(navigator)) = navigator
                      /\ LET call == navigator'[Len(navigator')]
                             params == ret'.arg[Len(ret'.arg)]
                         IN  /\ call.method = ret'.op
                             /\ call.way = params.way
                             /\ call.animation = params.animation
                             /\ call.activation = params.activation
                             /\ ret'.op = "showSection" =>
                                    call.memento = ret'.arg[1]
       /\ navigator' # navigator =>
              /\ ret'.op \in {"showSection", "showBackFromStack"}
              /\ ~ret'.val]_vars

\* C17 witness: the widget declined a showSection and then took a
\* showBackFromStack, and the navigator got the first alone.
C17_Witness ==
    /\ ret.op = "showBackFromStack" /\ ret.val
    /\ Len(widgetCalls) = 2
    /\ ~widgetCalls[1].handled /\ widgetCalls[2].handled
    /\ widgetCalls[1].method = "showInternal"
    /\ Len(navigator) = 1
    /\ navigator[1].method = "showSection"
    /\ navigator[1].memento = widgetCalls[1].args[1]

\* C18: a construction or a setSection ends in the type-mismatch failure
\* exactly when the snapshot's section is Media and the snapshot is not
\* Media-kind; a saveSearchState ends in it exactly when a content-search
\* delegate exists and the snapshot is not Media-kind; no other operation
\* ends in it. Without the mismatch a controller of a peer does not fail at
\* all, and a saveSearchState that does not fail leaves in the snapshot the
\* delegate's saved state, or, without a delegate, the saved state the
\* snapshot had.
C18_TypeMismatchFatal ==
    [][/\ ret'.op \in {"Controller", "setSection"} =>
              LET mismatch == /\ ret'.arg.section.type = "Media"
                              /\ ret'.arg.kind # "Media"
              IN  /\ failure' = "Assert" <=> mismatch
                  /\ (~mismatch /\ _key'.tag = "Peer") => failure' = "none"
       /\ ret'.op = "saveSearchState" =>
              LET mismatch == /\ _searchController # NoDelegate
                              /\ ret'.arg.kind # "Media"
              IN  /\ failure' = "Assert" <=> mismatch
                  /\ ~mismatch => failure' = "none"
                  /\ failure' = "none" =>
                         ret'.val.searchState =
                             IF _searchController # NoDelegate
                             THEN [query |-> _searchController.query]
                             ELSE ret'.arg.searchState
       /\ ret'.op \notin {"Controller", "setSection", "saveSearchState"} =>
              failure' # "Assert"]_vars

\* C18 witness: a saveSearchState with a Media-kind snapshot wrote the
\* delegate's query, made of a typed text, over the snapshot's saved state.
C18_Witness ==
    /\ ret.op = "saveSearchState" /\ failure = "none"
    /\ _searchController # NoDelegate
    /\ _searchController.query.query = "cats"
    /\ ret.arg.kind = "Media"
    /\ ret.arg.searchState = DefaultSearchState
    /\ ret.val.searchState = [query |-> _searchController.query]

\* The notifications that posted a task or led to a navigator call.
Answered ==
    {queue[i].notification : i \in DOMAIN queue}
    \cup {navigator[i].notification : i \in DOMAIN navigator}

\* C19: a controller whose key is not a peer's, or whose peer is neither a
\* chat nor a channel, or that was constructed with a migrated peer, is
\* handed no notification, posts no task and makes no navigator call; and
\* every task posted and every navigator call made answers a notification
\* at which the peer had a migration target, or a migration source other
\* than the recorded migrated peer.
C19_MigrationDomain ==
    /\ (\/ _key.tag # "Peer"
        \/ _key.tag = "Peer" /\ _key.value.peer \notin {"chat", "channel"}
        \/ _migrated # Null) =>
           /\ ~watching
           /\ notifications = <<>> /\ queue = <<>> /\ navigator = <<>>
    /\ \A n \in Answered :
           /\ n \in 1..Len(notifications)
           /\ \/ notifications[n].to # Null
              \/ notifications[n].from # _migrated

\* C19 witness: the navigator got the call of a notification at which the
\* channel had no migration target but a migration source.
C19_Witness ==
    /\ _key = Key_Peer("channel")
    /\ \E i \in DOMAIN navigator :
           LET n == navigator[i].notification
           IN  /\ notifications[n].to = Null
               /\ notifications[n].from = "chat"

\* The tasks in the queue that answer notification n.
TasksFor(n) == {i \in DOMAIN queue : queue[i].notification = n}

\* C20: the task a notification posts holds the section the controller
\* shows at that notification; a setSection leaves the posted tasks as they
\* are; the request the navigator gets holds the section of its task,
\* whatever the controller shows by then; and a task posted before the
\* controller was destroyed is still delivered, unless the widget dies.
C20_SectionCapturedAtNotification ==
    /\ [][/\ Len(queue') > Len(queue) =>
                queue'[Len(queue')].section = _section'
          /\ ret'.op = "setSection" => queue' = queue
          /\ navigator' # navigator =>
                /\ queue # <<>>
                /\ navigator'[Len(navigator')].memento.section
                       = Head(queue).section
                /\ navigator'[Len(navigator')].memento.section
                       = notifications[Head(queue).notification].section]_vars
    /\ \A n \in 1..MaxNotifications :
           (alive = "destroyed" /\ TasksFor(n) # {})
               ~> (~widgetAlive \/ CallsFor(n) # {})

\* C20 witness: after a setSection and the controller's destruction the
\* navigator got a request for the section shown at the notification, which
\* is not the section the controller showed last.
C20_Witness ==
    /\ ret.op = "invokeQueued"
    /\ alive = "destroyed" /\ widgetAlive
    /\ navigator[Len(navigator)].memento.section # _section
    /\ navigator[Len(navigator)].memento.section
           = notifications[navigator[Len(navigator)].notification].section

====
